---- MODULE Spec2Model ----
(***************************************************************************)
(* Model of backend/src/index.ts: the HTTP dispatcher (fetch), the         *)
(* per-resource handlers running against the relational store, and the    *)
(* completion-text repair function parseAIResponse.                        *)
(*                                                                         *)
(* Texts are sequences of lexical tokens: a JSON string literal, a number, *)
(* a punctuation character, a whitespace character, a markdown fence or a  *)
(* prose word is one token each.  The regular expressions of the source    *)
(* are translated onto that alphabet.                                      *)
(***************************************************************************)
EXTENDS Integers, Sequences, FiniteSets, TLC

\* ------------------------------------------------------------------ tokens
LB == "{"
RB == "}"
LK == "["
RK == "]"
CM == ","
CL == ":"
SP == " "
NL == "\n"
\* the three-backquote markdown fence
FENCE == "<fence>"
JSONTAG == "json"
PROSE == "Here"

KSchedule == "\"schedule\""
KSummary == "\"summary\""
KTime == "\"time\""
KActivity == "\"activity\""
KDuration == "\"duration\""
KType == "\"type\""
VTime == "\"09:00\""
VAct == "\"Read\""
VDur == "\"30\""
VType == "\"task\""
VEmpty == "\"\""
NUM == "30"

\* summary text appended by the truncation repair and used by the scraper
FallbackSummary == "\"Daily schedule generated based on your preferences and tasks.\""
\* summary text of the hardcoded schedule
BasicSummary == "\"Basic daily schedule created as fallback.\""

WsToks == {SP, NL}
StringToks == {KSchedule, KSummary, KTime, KActivity, KDuration, KType,
               VTime, VAct, VDur, VType, VEmpty, FallbackSummary, BasicSummary,
               "\"Morning Task\"", "\"Break\"", "\"Work Session\"", "\"Lunch\"",
               "\"10:00\"", "\"10:15\"", "\"11:45\"", "\"60\"", "\"15\"", "\"90\"",
               "\"break\"", "\"meal\""}
NumberToks == {NUM}

\* ------------------------------------------------------------- sequences
SetMin(S) == CHOOSE x \in S : \A y \in S : x <= y
SetMax(S) == CHOOSE x \in S : \A y \in S : x >= y

Count(s, t) == Cardinality({i \in 1..Len(s) : s[i] = t})

Includes(s, t) == \E i \in 1..Len(s) : s[i] = t

RECURSIVE Repeat(_, _)
Repeat(t, n) == IF n <= 0 THEN <<>> ELSE <<t>> \o Repeat(t, n - 1)

\* String.prototype.trim
Trim(s) ==
  LET idx == {i \in 1..Len(s) : s[i] \notin WsToks}
  IN IF idx = {} THEN <<>> ELSE SubSeq(s, SetMin(idx), SetMax(idx))

\* s without its leading whitespace (the \s* that ends a ^-anchored pattern)
DropLeadingWs(s) ==
  LET idx == {i \in 1..Len(s) : s[i] \notin WsToks}
  IN IF idx = {} THEN <<>> ELSE SubSeq(s, SetMin(idx), Len(s))

\* s without its trailing whitespace (the \s* that starts a $-anchored pattern)
DropTrailingWs(s) ==
  LET idx == {i \in 1..Len(s) : s[i] \notin WsToks}
  IN IF idx = {} THEN <<>> ELSE SubSeq(s, 1, SetMax(idx))

\* first index >= i of s that holds no whitespace, Len(s)+1 when there is none
SkipWs(s, i) ==
  LET idx == {j \in i..Len(s) : s[j] \notin WsToks}
  IN IF idx = {} THEN Len(s) + 1 ELSE SetMin(idx)

\* --------------------------------------------------------------- JSON.parse
\* Parsed values are trees of nodes [kind, val].
StrNode(t) == [kind |-> "str", val |-> <<t>>]
NumNode(t) == [kind |-> "num", val |-> <<t>>]
ArrNode(items) == [kind |-> "arr", val |-> items]
ObjNode(members) == [kind |-> "obj", val |-> members]
NoValue == [kind |-> "none", val |-> <<>>]

PFail == [ok |-> FALSE, pos |-> 0, node |-> NoValue]
POk(p, n) == [ok |-> TRUE, pos |-> p, node |-> n]

\* an object keeps one member per key: a repeated key overwrites in place
ObjPut(members, key, node) ==
  IF \E i \in 1..Len(members) : members[i][1] = key
  THEN [i \in 1..Len(members) |->
          IF members[i][1] = key THEN <<key, node>> ELSE members[i]]
  ELSE Append(members, <<key, node>>)

RECURSIVE ParseValue(_, _), ParseElements(_, _, _), ParseMembers(_, _, _)

\* value at or after position i (leading whitespace skipped)
ParseValue(s, i) ==
  LET j == SkipWs(s, i) IN
  IF j > Len(s) THEN PFail
  ELSE IF s[j] \in StringToks THEN POk(j + 1, StrNode(s[j]))
  ELSE IF s[j] \in NumberToks THEN POk(j + 1, NumNode(s[j]))
  ELSE IF s[j] = LK THEN
    LET k == SkipWs(s, j + 1) IN
    IF k <= Len(s) /\ s[k] = RK THEN POk(k + 1, ArrNode(<<>>))
    ELSE ParseElements(s, j + 1, <<>>)
  ELSE IF s[j] = LB THEN
    LET k == SkipWs(s, j + 1) IN
    IF k <= Len(s) /\ s[k] = RB THEN POk(k + 1, ObjNode(<<>>))
    ELSE ParseMembers(s, j + 1, <<>>)
  ELSE PFail

\* one array element at i, then "," and more elements, or "]"
ParseElements(s, i, acc) ==
  LET v == ParseValue(s, i) IN
  IF ~v.ok THEN PFail
  ELSE LET k == SkipWs(s, v.pos) IN
       IF k > Len(s) THEN PFail
       ELSE IF s[k] = CM THEN ParseElements(s, k + 1, Append(acc, v.node))
       ELSE IF s[k] = RK THEN POk(k + 1, ArrNode(Append(acc, v.node)))
       ELSE PFail

\* one object member at i, then "," and more members, or "}"
ParseMembers(s, i, acc) ==
  LET j == SkipWs(s, i) IN
  IF j > Len(s) \/ s[j] \notin StringToks THEN PFail
  ELSE LET c == SkipWs(s, j + 1) IN
       IF c > Len(s) \/ s[c] # CL THEN PFail
       ELSE LET v == ParseValue(s, c + 1) IN
            IF ~v.ok THEN PFail
            ELSE LET k == SkipWs(s, v.pos) IN
                 IF k > Len(s) THEN PFail
                 ELSE IF s[k] = CM
                   THEN ParseMembers(s, k + 1, ObjPut(acc, s[j], v.node))
                 ELSE IF s[k] = RB
                   THEN POk(k + 1, ObjNode(ObjPut(acc, s[j], v.node)))
                 ELSE PFail

\* JSON.parse(text): one value and nothing but whitespace around it
JSONParse(s) ==
  LET v == ParseValue(s, 1) IN
  IF v.ok /\ SkipWs(s, v.pos) > Len(s) THEN v ELSE PFail

\* ------------------------------------------------------- parseAIResponse
\* .replace(/^```json\s*/i, ''): an opening fence tagged json, and the
\* whitespace after it
StripJsonFence(s) ==
  IF Len(s) >= 2 /\ s[1] = FENCE /\ s[2] = JSONTAG
  THEN DropLeadingWs(SubSeq(s, 3, Len(s))) ELSE s

\* .replace(/^```\s*/, ''): an opening fence and the whitespace after it
StripOpenFence(s) ==
  IF Len(s) >= 1 /\ s[1] = FENCE
  THEN DropLeadingWs(SubSeq(s, 2, Len(s))) ELSE s

\* .replace(/\s*```$/, ''): a closing fence and the whitespace before it
StripCloseFence(s) ==
  IF Len(s) >= 1 /\ s[Len(s)] = FENCE
  THEN DropTrailingWs(SubSeq(s, 1, Len(s) - 1)) ELSE s

\* the three replacements, applied in the order of the source
StripFences(s) == StripCloseFence(StripOpenFence(StripJsonFence(s)))

\* .match(/\{[\s\S]*\}/): from the first "{" to the last "}" after it;
\* the text itself when there is no match
BraceSpan(s) ==
  LET opens == {i \in 1..Len(s) : s[i] = LB} IN
  IF opens = {} THEN s
  ELSE LET a == SetMin(opens)
           closes == {i \in (a + 1)..Len(s) : s[i] = RB}
       IN IF closes = {} THEN s ELSE SubSeq(s, a, SetMax(closes))

\* "schedule":\s*\[ starts at position j
ScheduleArrayAt(s, j) ==
  /\ j + 2 <= Len(s)
  /\ s[j] = KSchedule
  /\ s[j + 1] = CL
  /\ LET k == SkipWs(s, j + 2) IN k <= Len(s) /\ s[k] = LK

\* .match(/\{[\s\S]*"schedule":\s*\[[\s\S]*/): the positions of a "{" that
\* has the start of a schedule array somewhere after it
ScheduleStarts(s) ==
  {i \in 1..Len(s) : s[i] = LB /\ \E j \in (i + 1)..Len(s) : ScheduleArrayAt(s, j)}

\* .replace(/,\s*$/, ''): a comma that only whitespace follows
StripTrailingComma(s) ==
  LET t == DropTrailingWs(s) IN
  IF Len(t) >= 1 /\ t[Len(t)] = CM THEN SubSeq(t, 1, Len(t) - 1) ELSE s

\* ', "summary": "Daily schedule generated ..."'
SummarySuffix == <<CM, SP, KSummary, CL, SP, FallbackSummary>>

\* lines 575-598: the cut-off text closed again
RepairTruncated(scheduleContent) ==
  LET openBrackets == Count(scheduleContent, LK)
      closeBrackets == Count(scheduleContent, RK)
      openBraces == Count(scheduleContent, LB)
      closeBraces == Count(scheduleContent, RB)
      c1 == StripTrailingComma(scheduleContent)
      c2 == c1 \o Repeat(RK, openBrackets - closeBrackets)
      c3 == IF ~Includes(c2, KSummary) THEN c2 \o SummarySuffix ELSE c2
  IN c3 \o Repeat(RB, openBraces - closeBraces)

\* lines 553-602: the text handed to the second JSON.parse
CleanContent(rawContent) ==
  LET c0 == Trim(rawContent)
      c1 == StripFences(c0)
      c2 == Trim(BraceSpan(c1))
  IN IF Includes(c2, KSchedule) /\ ~Includes(c2, KSummary)
     THEN LET starts == ScheduleStarts(c2) IN
          IF starts # {}
          THEN RepairTruncated(SubSeq(c2, SetMin(starts), Len(c2)))
          ELSE c2
     ELSE c2

\* .match(/"<key>":\s*"[^"]+"/g): the positions where key, ":", optional
\* whitespace and a non-empty string literal follow each other
FieldMatches(s, key) ==
  {j \in 1..Len(s) :
     /\ j + 2 <= Len(s)
     /\ s[j] = key
     /\ s[j + 1] = CL
     /\ LET k == SkipWs(s, j + 2)
        IN k <= Len(s) /\ s[k] \in StringToks \ {VEmpty}}

\* m.match(/"([^"]+)"/)?.[1] || dflt on a match "<key>": "<value>": the first
\* quoted run of the match is the key itself
FirstQuoted(key, dflt) == IF key # VEmpty THEN key ELSE dflt

\* lines 615-636: the schedule scraped field by field
ScrapeSchedule(s) ==
  LET nt == Cardinality(FieldMatches(s, KTime))
      na == Cardinality(FieldMatches(s, KActivity))
      nd == Cardinality(FieldMatches(s, KDuration))
      ny == Cardinality(FieldMatches(s, KType))
      minLength == IF nt = 0 \/ na = 0 \/ nd = 0 \/ ny = 0 THEN 0
                   ELSE SetMin({nt, na, nd, ny})
      item == ObjNode(<< <<KTime, StrNode(FirstQuoted(KTime, VTime))>>,
                         <<KActivity, StrNode(FirstQuoted(KActivity, "\"Task\""))>>,
                         <<KDuration, StrNode(FirstQuoted(KDuration, VDur))>>,
                         <<KType, StrNode(FirstQuoted(KType, VType))>> >>)
  IN ObjNode(<< <<KSchedule, ArrNode([i \in 1..minLength |-> item])>>,
                <<KSummary, StrNode(FallbackSummary)>> >>)

\* rawContent.substring(0, 200), lengths counted in tokens
SubstringLimit == 200
Substring(s, n) == SubSeq(s, 1, IF Len(s) < n THEN Len(s) ELSE n)

\* the message of the error thrown at line 651
CannotExtract(rawContent) ==
  <<"Cannot extract valid JSON from AI response: ">>
     \o Substring(rawContent, SubstringLimit) \o <<"...">>

Returned(node) == [raised |-> FALSE, value |-> node, message |-> <<>>]
Raised(msg) == [raised |-> TRUE, value |-> NoValue, message |-> msg]

\* line 612: whether the scraping fallback is entered
HasScheduleContent(cleanedContent) == Includes(cleanedContent, KSchedule)

parseAIResponse(rawContent) ==
  LET direct == JSONParse(rawContent) IN
  IF direct.ok THEN Returned(direct.node)
  ELSE LET cleanedContent == CleanContent(rawContent)
           second == JSONParse(cleanedContent)
       IN IF second.ok THEN Returned(second.node)
          ELSE IF HasScheduleContent(cleanedContent)
               THEN Returned(ScrapeSchedule(cleanedContent))
               ELSE Raised(CannotExtract(rawContent))

\* ------------------------------------------------------------------ bounds
\* requests accepted in one behaviour
MaxRequests == 2
\* rows the tasks table's serial id hands out
MaxTasks == 2
\* length of the exhaustively enumerated completion texts
MaxLen == 3

Users == {"u1", "u2"}
\* requests in flight at the same time
Slots == {1, 2}

\* ------------------------------------------------------------------- state
VARIABLES
  users,        \* table users: the set of ids
  tasks,        \* table tasks: rows [id, user_id, title, duration_minutes, importance]
  nextId,       \* the serial of tasks.id
  preferences,  \* table preferences: rows keyed by user_id
  plans,        \* table plans: rows keyed by (user_id, today)
  req,          \* per slot: the request being served by fetch
  accepted,     \* number of requests accepted so far
  lastPrefs,    \* history: per user, the payload of the last upsert applied
  rawContent,   \* parseAIResponse alone: its argument
  result,       \* parseAIResponse alone: its outcome
  wrapped,      \* parseAIResponse alone: its outcome on the argument in a fence
  ppc           \* parseAIResponse alone: "off", "input", "done" or "fenced"

store == <<users, tasks, nextId, preferences, plans>>
vars == <<users, tasks, nextId, preferences, plans, req, accepted, lastPrefs,
          rawContent, result, wrapped, ppc>>

Routes == {"OPTIONS", "GET /health", "GET /", "POST /api/tasks", "GET /api/tasks",
           "DELETE /api/tasks/", "POST /api/preferences", "GET /api/preferences",
           "POST /api/plan", "GET /api/plan", "GET /api/weather", "GET /api/apod",
           "other"}

\* the handlers that start with getUserId
AuthRoutes == Routes \ {"OPTIONS", "GET /health", "GET /", "GET /api/apod", "other"}

NoPayload == [wakeTime |-> "", sleepTime |-> "", peakFocus |-> "", city |-> "",
              breakStyle |-> "", breakInterval |-> 0, maxWorkHours |-> 0,
              commuteMode |-> ""]
PayloadA == [wakeTime |-> "07:00", sleepTime |-> "23:00", peakFocus |-> "morning",
             city |-> "Kolkata", breakStyle |-> "short", breakInterval |-> 30,
             maxWorkHours |-> 8, commuteMode |-> "walk"]
PayloadB == [wakeTime |-> "09:30", sleepTime |-> "22:00", peakFocus |-> "evening",
             city |-> "Pune", breakStyle |-> "long", breakInterval |-> 45,
             maxWorkHours |-> 6, commuteMode |-> "car"]

\* the request as fetch and its handler see it, with the locals they keep
IdleReq ==
  [pc |-> "idle", route |-> "none",
   connected |-> FALSE,      \* sql.connect() succeeded
   ended |-> 0,              \* calls of sql.end()
   nresp |-> 0,              \* Response objects returned to the runtime
   escaped |-> FALSE,        \* an exception left fetch
   threw |-> FALSE,          \* an exception reached the dispatcher's catch
   status |-> 0, data |-> "none", error |-> <<>>, body |-> <<>>,
   auth |-> "none", userId |-> "none",
   wrote |-> FALSE,          \* history: the request changed a table
   taskId |-> 0, queried |-> FALSE, foreign |-> FALSE, victims |-> {},
   payload |-> NoPayload,
   same |-> FALSE,           \* history: the upsert found a row holding the payload
   prefsChanged |-> FALSE,   \* history: the upsert changed the table
   lookedUp |-> FALSE, prefsRows |-> {}, taskRows |-> {},
   weather |-> "null", apod |-> "null",
   calls |-> <<>>,           \* history: the external calls made, in order
   text |-> <<>>, parsed |-> FALSE, plan |-> NoValue, persist |-> "none"]

\* the preferences row of user u holding payload p (lines 394-405)
PrefsRow(u, p) ==
  [user_id |-> u, wake_time |-> p.wakeTime, sleep_time |-> p.sleepTime,
   peak_focus |-> p.peakFocus, city |-> p.city, break_style |-> p.breakStyle,
   break_interval_minutes |-> p.breakInterval, max_work_hours |-> p.maxWorkHours,
   commute_mode |-> p.commuteMode]

\* The tables a behaviour starts from, as two earlier requests of u1 left
\* them: POST /api/preferences with PayloadA, then POST /api/tasks.  u2 has
\* never been seen.
SeedStore ==
  [users |-> {"u1"},
   tasks |-> {[id |-> 1, user_id |-> "u1", title |-> "Read",
               duration_minutes |-> 30, importance |-> "high"]},
   nextId |-> 2,
   preferences |-> {PrefsRow("u1", PayloadA)},
   lastPrefs |-> [u \in Users |-> IF u = "u1" THEN PayloadA ELSE NoPayload]]

NoResult == [raised |-> FALSE, value |-> NoValue, message |-> <<>>]

Init ==
  /\ users = SeedStore.users
  /\ tasks = SeedStore.tasks
  /\ nextId = SeedStore.nextId
  /\ preferences = SeedStore.preferences
  /\ lastPrefs = SeedStore.lastPrefs
  /\ plans = {}
  /\ req = [s \in Slots |-> IdleReq]
  /\ accepted = 0
  /\ rawContent = <<>>
  /\ result = NoResult
  /\ wrapped = NoResult
  /\ ppc = "off"

\* --------------------------------------------------------------- responses
\* json(data, status) returned from inside the dispatcher's try block
Respond(r, status, data, error, body) ==
  [r EXCEPT !.status = status, !.data = data, !.error = error, !.body = body,
            !.nresp = @ + 1, !.pc = "finally"]

\* a dispatcher without the catch block: the exception leaves fetch
DispatcherRethrow(r, message) ==
  [r EXCEPT !.threw = TRUE, !.escaped = TRUE, !.pc = "finally"]

\* lines 115-117: catch (err) { return json({error: err.message || "Server error"}, 500) }
DispatcherCatch(r, message) ==
  Respond([r EXCEPT !.threw = TRUE], 500, "error",
          IF message = <<>> THEN <<"Server error">> ELSE message, <<>>)

\* the connection closed after a normal return only, not in a finally block
FinallyBlockOnReturn(r) ==
  IF r.threw THEN [r EXCEPT !.pc = "done"]
  ELSE [r EXCEPT !.ended = @ + 1, !.pc = "done"]

\* lines 118-125: finally { try { await sql.end() } catch { log } }
FinallyBlock(r) == [r EXCEPT !.ended = @ + 1, !.pc = "done"]

\* records that the step changed a table
Touch(r, changed) == [r EXCEPT !.wrote = @ \/ changed]

parseVars == <<rawContent, result, wrapped, ppc>>

Step(s, r) == /\ req' = [req EXCEPT ![s] = r]
              /\ UNCHANGED parseVars

\* the positions whose next step neither reads nor writes a table
LocalPcs == {"connect", "dispatch", "getUserId", "finally", "done", "fetchWeather",
             "getApod", "weatherLookup", "apodLookup", "completion"}

\* Steps at those positions commute with every step of the other requests, so
\* only the interleavings in which they run right after the step before them
\* are explored: a request moves while no other request is at such a position.
Quiet(s) == \A t \in Slots \ {s} : req[t].pc \notin LocalPcs

\* ------------------------------------------------------------------- fetch
\* a request arrives at fetch (line 59)
Arrive(s) ==
  /\ req[s].pc = "idle"
  /\ Quiet(s)
  /\ \A t \in Slots : t < s => req[t].pc # "idle"
  /\ accepted < MaxRequests
  /\ accepted' = accepted + 1
  /\ \E route \in Routes :
       Step(s, [IdleReq EXCEPT !.pc = "connect", !.route = route])
  /\ UNCHANGED <<store, lastPrefs>>

\* lines 63-68: await sql.connect(); its failure answers 500 outside the try
Connect(s) ==
  /\ req[s].pc = "connect"
  /\ Quiet(s)
  /\ \E ok \in BOOLEAN :
       Step(s, IF ok
               THEN [req[s] EXCEPT !.connected = TRUE, !.pc = "dispatch"]
               ELSE [Respond(req[s], 500, "error", <<"Database connection failed">>, <<>>)
                       EXCEPT !.pc = "done"])
  /\ UNCHANGED <<store, accepted, lastPrefs>>

\* lines 74-114: the routes answered by the dispatcher itself, and the
\* handlers entered
Dispatch(s) ==
  /\ req[s].pc = "dispatch"
  /\ Quiet(s)
  /\ LET r == req[s] IN
     Step(s, CASE r.route = "OPTIONS" -> Respond(r, 200, "cors", <<>>, <<>>)
               [] r.route = "GET /health" -> Respond(r, 200, "health", <<>>, <<>>)
               [] r.route = "GET /" -> Respond(r, 200, "banner", <<>>, <<>>)
               [] r.route = "other" -> Respond(r, 404, "error", <<"Not found">>, <<>>)
               [] r.route = "GET /api/apod" -> [r EXCEPT !.pc = "getApod"]
               [] OTHER -> [r EXCEPT !.pc = "getUserId"])
  /\ UNCHANGED <<store, accepted, lastPrefs>>

\* lines 118-125, entered after every return and every catch of the try block
Finally(s) ==
  /\ req[s].pc = "finally"
  /\ Quiet(s)
  /\ Step(s, FinallyBlock(req[s]))
  /\ UNCHANGED <<store, accepted, lastPrefs>>

\* the runtime has taken the response: the slot is free again
Leave(s) ==
  /\ req[s].pc = "done"
  /\ Quiet(s)
  /\ Step(s, IdleReq)
  /\ UNCHANGED <<store, accepted, lastPrefs>>

\* ---------------------------------------------------------------- getUserId
AuthFailures == {"Missing or invalid Authorization header", "Missing token",
                 "Token verification failed", "Invalid token payload"}

\* the inner error rethrown as it is
AuthErrorBare(inner) == <<inner>>

\* line 53: throw new Error("Authentication failed: " + err.message)
AuthError(inner) == <<"Authentication failed: ", inner>>

\* lines 30-55, and the handler's first statement that awaits it
GetUserId(s) ==
  /\ req[s].pc = "getUserId"
  /\ Quiet(s)
  /\ LET r == req[s] IN
     \/ \E inner \in AuthFailures :
          Step(s, DispatcherCatch([r EXCEPT !.auth = "failed"], AuthError(inner)))
     \/ \E u \in Users :
          Step(s, [r EXCEPT !.auth = "ok", !.userId = u, !.pc = r.route])
  /\ UNCHANGED <<store, accepted, lastPrefs>>

\* INSERT INTO users (id) VALUES ($1) ON CONFLICT (id) DO NOTHING, inside a
\* try whose catch only logs: the table after the statement ran or failed
EnsureUser(u) == {users \cup {u}, users}

DbError == "database error"

\* --------------------------------------------------------------- createTask
TaskBodies == {"invalid json", "no title", "no duration", "no importance", "valid"}

\* lines 144-164: the 400 answered for a body, <<>> for a valid one
TaskBodyError(b) ==
  CASE b = "invalid json" -> <<"Invalid JSON in request body">>
    [] b = "no title" -> <<"Title is required and must be a non-empty string">>
    [] b = "no duration" -> <<"Duration is required and must be a positive number">>
    [] b = "no importance" -> <<"Importance is required and must be a string">>
    [] OTHER -> <<>>

\* lines 133-164: provision the user, read and validate the body
CreateTask(s) ==
  /\ req[s].pc = "POST /api/tasks"
  /\ Quiet(s)
  /\ LET r == req[s] IN
     \E us \in EnsureUser(r.userId), b \in TaskBodies :
       /\ users' = us
       /\ Step(s, IF TaskBodyError(b) # <<>>
                  THEN Respond(Touch(r, us # users), 400, "error", TaskBodyError(b), <<>>)
                  ELSE [Touch(r, us # users) EXCEPT !.pc = "insertTask"])
  /\ UNCHANGED <<tasks, nextId, preferences, plans, accepted, lastPrefs>>

\* lines 166-176: INSERT INTO tasks ... CURRENT_DATE
InsertTask(s) ==
  /\ req[s].pc = "insertTask"
  /\ Quiet(s)
  /\ LET r == req[s] IN
     \/ /\ nextId <= MaxTasks
        /\ tasks' = tasks \cup {[id |-> nextId, user_id |-> r.userId, title |-> "Read",
                                 duration_minutes |-> 30, importance |-> "high"]}
        /\ nextId' = nextId + 1
        /\ Step(s, Respond(Touch(r, TRUE), 200, "ok", <<>>, <<>>))
     \/ /\ UNCHANGED <<tasks, nextId>>
        /\ Step(s, Respond(r, 500, "error", <<"Failed to create task: ", DbError>>, <<>>))
  /\ UNCHANGED <<users, preferences, plans, accepted, lastPrefs>>

\* ----------------------------------------------------------------- getTasks
\* lines 447-472
GetTasks(s) ==
  /\ req[s].pc = "GET /api/tasks"
  /\ Quiet(s)
  /\ LET r == req[s] IN
     \E ok \in BOOLEAN :
       Step(s, IF ok
               THEN Respond(r, 200, "tasks", <<>>,
                            <<{t.id : t \in {x \in tasks : x.user_id = r.userId}}>>)
               ELSE Respond(r, 500, "error", <<"Failed to retrieve tasks: ", DbError>>, <<>>))
  /\ UNCHANGED <<store, accepted, lastPrefs>>

\* --------------------------------------------------------------- deleteTask
\* the last path segment: 0 stands for the empty segment of "/api/tasks/"
TaskIds == 0..MaxTasks

\* DELETE FROM tasks WHERE id = $1, the owner not compared
DeletedRowsAnyOwner(taskId, userId) == {t \in tasks : t.id = taskId}

\* DELETE FROM tasks WHERE id = $1 AND user_id = $2: the rows deleted
DeletedRows(taskId, userId) ==
  {t \in tasks : t.id = taskId /\ t.user_id = userId}

\* lines 474-498
DeleteTask(s) ==
  /\ req[s].pc = "DELETE /api/tasks/"
  /\ Quiet(s)
  /\ LET r == req[s] IN
     \E taskId \in TaskIds, ok \in BOOLEAN :
       LET q == [r EXCEPT !.taskId = taskId] IN
       IF taskId = 0
       THEN /\ Step(s, Respond(q, 400, "error", <<"Task ID is required">>, <<>>))
            /\ UNCHANGED tasks
       ELSE IF ~ok
       THEN /\ Step(s, Respond(q, 500, "error", <<"Failed to delete task: ", DbError>>, <<>>))
            /\ UNCHANGED tasks
       ELSE LET gone == DeletedRows(taskId, r.userId)
                d == [q EXCEPT !.queried = TRUE, !.victims = gone,
                               !.foreign = \E t \in tasks :
                                             t.id = taskId /\ t.user_id # r.userId]
            IN /\ tasks' = tasks \ gone
               /\ Step(s, IF Cardinality(gone) = 0
                          THEN Respond(d, 404, "error",
                                       <<"Task not found or not authorized to delete">>, <<>>)
                          ELSE Respond(Touch(d, TRUE), 200, "ok", <<>>, <<>>))
  /\ UNCHANGED <<users, nextId, preferences, plans, accepted, lastPrefs>>

\* ---------------------------------------------------------- savePreferences
ValidCommuteModes == {"none", "walk", "bike", "public", "car"}
ValidPeakFocus == {"morning", "afternoon", "evening"}
\* the modelled strings that match /^([0-1]?[0-9]|2[0-3]):[0-5][0-9]$/
TimeRegexMatches == {"07:00", "23:00", "09:30", "22:00"}

PreferenceBodies ==
  {PayloadA, PayloadB,
   [PayloadA EXCEPT !.city = ""],
   [PayloadA EXCEPT !.commuteMode = "plane"],
   [PayloadA EXCEPT !.peakFocus = "night"],
   [PayloadA EXCEPT !.wakeTime = "25:00"],
   [PayloadA EXCEPT !.sleepTime = "11pm"],
   [PayloadA EXCEPT !.breakInterval = 0],
   [PayloadA EXCEPT !.maxWorkHours = 25]}

\* lines 358-390: the 400 answered for a body, <<>> for a valid one
PreferencesError(b) ==
  IF b.wakeTime = "" \/ b.sleepTime = "" \/ b.peakFocus = "" \/ b.city = ""
     \/ b.breakStyle = "" \/ b.commuteMode = ""
    THEN <<"All preference fields are required">>
  ELSE IF b.commuteMode \notin ValidCommuteModes
    THEN <<"Invalid commute mode. Must be one of: none, walk, bike, public, car">>
  ELSE IF b.peakFocus \notin ValidPeakFocus
    THEN <<"Invalid peak focus. Must be one of: morning, afternoon, evening">>
  ELSE IF b.wakeTime \notin TimeRegexMatches
    THEN <<"Wake time must be in HH:MM format">>
  ELSE IF b.sleepTime \notin TimeRegexMatches
    THEN <<"Sleep time must be in HH:MM format">>
  ELSE IF b.breakInterval <= 0
    THEN <<"Break interval must be a positive number">>
  ELSE IF b.maxWorkHours <= 0 \/ b.maxWorkHours > 24
    THEN <<"Max work hours must be between 1 and 24">>
  ELSE <<>>

\* lines 329-390: provision the user, read and validate the body
SavePreferences(s) ==
  /\ req[s].pc = "POST /api/preferences"
  /\ Quiet(s)
  /\ LET r == Touch(req[s], users' # users) IN
     \E us \in EnsureUser(req[s].userId) :
       /\ users' = us
       /\ \/ Step(s, Respond(r, 400, "error", <<"Invalid JSON in request body">>, <<>>))
          \/ \E b \in PreferenceBodies :
               Step(s, IF PreferencesError(b) # <<>>
                       THEN Respond(r, 400, "error", PreferencesError(b), <<>>)
                       ELSE [r EXCEPT !.payload = b, !.pc = "upsertPreferences"])
  /\ UNCHANGED <<tasks, nextId, preferences, plans, accepted, lastPrefs>>

\* a plain INSERT that no conflict clause guards
InsertPreferences(u, p) == preferences \cup {PrefsRow(u, p)}

\* lines 393-406: INSERT ... ON CONFLICT (user_id) DO UPDATE SET <every column>
UpsertPreferences(u, p) ==
  IF \E row \in preferences : row.user_id = u
  THEN {IF row.user_id = u THEN PrefsRow(u, p) ELSE row : row \in preferences}
  ELSE preferences \cup {PrefsRow(u, p)}

\* lines 392-411
WritePreferences(s) ==
  /\ req[s].pc = "upsertPreferences"
  /\ Quiet(s)
  /\ LET r == req[s] IN
     \/ /\ preferences' = UpsertPreferences(r.userId, r.payload)
        /\ lastPrefs' = [lastPrefs EXCEPT ![r.userId] = r.payload]
        /\ Step(s, Respond(Touch([r EXCEPT !.same = PrefsRow(r.userId, r.payload) \in preferences,
                                              !.prefsChanged = preferences' # preferences],
                                  preferences' # preferences),
                            200, "ok", <<>>, <<>>))
     \/ /\ UNCHANGED <<preferences, lastPrefs>>
        /\ Step(s, Respond(r, 500, "error", <<"Failed to save preferences: ", DbError>>, <<>>))
  /\ UNCHANGED <<users, tasks, nextId, plans, accepted>>

\* ----------------------------------------------------------- getPreferences
\* lines 414-445
GetPreferences(s) ==
  /\ req[s].pc = "GET /api/preferences"
  /\ Quiet(s)
  /\ LET r == req[s] IN
     \E ok \in BOOLEAN :
       Step(s, IF ok
               THEN Respond(r, 200, "preferences", <<>>,
                            <<{row \in preferences : row.user_id = r.userId}>>)
               ELSE Respond(r, 500, "error",
                            <<"Failed to retrieve preferences: ", DbError>>, <<>>))
  /\ UNCHANGED <<store, accepted, lastPrefs>>

\* ------------------------------------------------------------------ getPlan
\* lines 179-197
GetPlan(s) ==
  /\ req[s].pc = "GET /api/plan"
  /\ Quiet(s)
  /\ LET r == req[s] IN
     \E ok \in BOOLEAN :
       Step(s, IF ok
               THEN Respond(r, 200, "plan", <<>>,
                            <<{row.plan_json : row \in {x \in plans : x.user_id = r.userId}}>>)
               ELSE Respond(r, 500, "error", <<"Failed to retrieve plan: ", DbError>>, <<>>))
  /\ UNCHANGED <<store, accepted, lastPrefs>>

\* ------------------------------------------------------ getWeather, getApod
FetchOutcomes == {"ok", "status", "throw"}

\* lines 656-670: the city of the user's preferences
GetWeather(s) ==
  /\ req[s].pc = "GET /api/weather"
  /\ Quiet(s)
  /\ LET r == req[s]
         rows == {row \in preferences : row.user_id = r.userId}
     IN \E ok \in BOOLEAN :
          Step(s, IF ~ok
                  THEN Respond(r, 500, "error", <<"Failed to get weather: ", DbError>>, <<>>)
                  ELSE IF rows = {} \/ \A row \in rows : row.city = ""
                  THEN Respond(r, 400, "error",
                         <<"City not found in user preferences. Please set up your preferences first.">>,
                         <<>>)
                  ELSE [r EXCEPT !.pc = "fetchWeather"])
  /\ UNCHANGED <<store, accepted, lastPrefs>>

\* lines 672-694: the weather provider is asked
FetchWeather(s) ==
  /\ req[s].pc = "fetchWeather"
  /\ Quiet(s)
  /\ LET r == [req[s] EXCEPT !.calls = Append(@, "weather")] IN
     \E out \in FetchOutcomes :
       Step(s, IF out = "ok"
               THEN Respond(r, 200, "weather", <<>>, <<>>)
               ELSE Respond(r, 500, "error", <<"Failed to fetch weather data: ", out>>, <<>>))
  /\ UNCHANGED <<store, accepted, lastPrefs>>

\* lines 701-724
GetApod(s) ==
  /\ req[s].pc = "getApod"
  /\ Quiet(s)
  /\ LET r == [req[s] EXCEPT !.calls = Append(@, "apod")] IN
     \E out \in FetchOutcomes :
       Step(s, IF out = "ok"
               THEN Respond(r, 200, "apod", <<>>, <<>>)
               ELSE Respond(r, 500, "error", <<"Failed to fetch NASA APOD data: ", out>>, <<>>))
  /\ UNCHANGED <<store, accepted, lastPrefs>>

\* ------------------------------------------------------------- generatePlan
\* lines 202-211: provision the user
GeneratePlan(s) ==
  /\ req[s].pc = "POST /api/plan"
  /\ Quiet(s)
  /\ \E us \in EnsureUser(req[s].userId) :
       /\ users' = us
       /\ Step(s, [Touch(req[s], us # users) EXCEPT !.pc = "lookupPrefs"])
  /\ UNCHANGED <<tasks, nextId, preferences, plans, accepted, lastPrefs>>

\* lines 214-215: SELECT * FROM preferences WHERE user_id = $1; a rejected
\* query rejects the Promise.all, which no handler code catches
LookupPrefs(s) ==
  /\ req[s].pc = "lookupPrefs"
  /\ Quiet(s)
  /\ LET r == req[s] IN
     \E ok \in BOOLEAN :
       Step(s, IF ok
               THEN [r EXCEPT !.prefsRows = {row \in preferences : row.user_id = r.userId},
                              !.pc = "lookupTasks"]
               ELSE DispatcherCatch(r, <<DbError>>))
  /\ UNCHANGED <<store, accepted, lastPrefs>>

\* only the preferences are required
PlanPrerequisitesPrefsOnly(prefsRows, taskRows) ==
  IF prefsRows = {}
    THEN <<"User preferences not found. Please set up your preferences first.">>
  ELSE <<>>

\* lines 222-230: the 400 answered when a prerequisite is missing, <<>> otherwise
PlanPrerequisites(prefsRows, taskRows) ==
  IF prefsRows = {}
    THEN <<"User preferences not found. Please set up your preferences first.">>
  ELSE IF taskRows = {}
    THEN <<"No tasks found for today. Please add some tasks first.">>
  ELSE <<>>

\* lines 216-230: SELECT * FROM tasks WHERE user_id = $1 AND task_date = today,
\* then the two prerequisite checks
LookupTasks(s) ==
  /\ req[s].pc = "lookupTasks"
  /\ Quiet(s)
  /\ LET r == req[s] IN
     \E ok \in BOOLEAN :
       Step(s, IF ~ok THEN DispatcherCatch(r, <<DbError>>)
               ELSE LET rows == {t \in tasks : t.user_id = r.userId}
                        q == [r EXCEPT !.taskRows = rows, !.lookedUp = TRUE]
                        missing == PlanPrerequisites(r.prefsRows, rows)
                    IN IF missing # <<>> THEN Respond(q, 400, "error", missing, <<>>)
                       ELSE [q EXCEPT !.pc = "weatherLookup"])
  /\ UNCHANGED <<store, accepted, lastPrefs>>

\* the weather lookup outside any try block: its exception ends the request
AfterWeatherUncaught(r, out) ==
  IF out = "throw" THEN DispatcherCatch(r, <<"fetch failed">>)
  ELSE [r EXCEPT !.weather = IF out = "ok" THEN "real" ELSE "fallback",
                 !.pc = "apodLookup"]

\* lines 241-253: the value of weather after the try block
AfterWeather(r, out) ==
  [r EXCEPT !.weather = IF out = "ok" THEN "real" ELSE "fallback",
            !.pc = "apodLookup"]

\* lines 235-253: the weather provider is asked when the preferences name a city
WeatherLookup(s) ==
  /\ req[s].pc = "weatherLookup"
  /\ Quiet(s)
  /\ LET r == req[s] IN
     IF \E row \in r.prefsRows : row.city # ""
     THEN \E out \in FetchOutcomes :
            Step(s, AfterWeather([r EXCEPT !.calls = Append(@, "weather")], out))
     ELSE Step(s, AfterWeather(r, "no city"))
  /\ UNCHANGED <<store, accepted, lastPrefs>>

\* lines 260-266: the value of apod after the try block
AfterApod(r, out) ==
  [r EXCEPT !.apod = IF out = "ok" THEN "real" ELSE "null",
            !.pc = "buildPrompt"]

\* lines 501-544: the error thrown, <<>> when a prompt is returned
buildPromptError(taskRows) ==
  IF taskRows = {} THEN <<"No tasks provided for planning">> ELSE <<>>

\* lines 255-269: the astronomy picture is asked for, then the prompt is built
ApodLookup(s) ==
  /\ req[s].pc = "apodLookup"
  /\ Quiet(s)
  /\ LET r == [req[s] EXCEPT !.calls = Append(@, "apod")] IN
     \E out \in FetchOutcomes :
       Step(s, IF buildPromptError(r.taskRows) # <<>>
               THEN DispatcherCatch(AfterApod(r, out), buildPromptError(r.taskRows))
               ELSE [AfterApod(r, out) EXCEPT !.pc = "completion"])
  /\ UNCHANGED <<store, accepted, lastPrefs>>

ItemText ==
  <<LB, KTime, CL, SP, VTime, CM, SP, KActivity, CL, SP, VAct, CM, SP,
    KDuration, CL, SP, VDur, CM, SP, KType, CL, SP, VType, RB>>

\* a completion as the prompt asks for it
PlanText ==
  <<LB, KSchedule, CL, SP, LK>> \o ItemText
    \o <<RK, CM, SP, KSummary, CL, SP, "\"Lunch\"", RB>>

\* the completions the model is driven with
CompletionTexts ==
  {PlanText,
   SubSeq(PlanText, 1, Len(PlanText) - 8),
   <<LB, RB>>,
   <<PROSE, SP, PROSE>>}

\* line 307: json({error: "Failed to generate plan: " + err.message}, 500)
PlanFailure(r, message) ==
  Respond(r, 500, "error", <<"Failed to generate plan: ">> \o message, <<>>)

\* lines 298-304: the outcome of parseAIResponse inside the inner try
AfterCompletion(r, text) ==
  LET parsed == parseAIResponse(text)
      q == [r EXCEPT !.text = text]
  IN IF parsed.raised
     THEN PlanFailure(q, <<"Failed to parse AI response as JSON">>)
     ELSE [q EXCEPT !.parsed = TRUE, !.plan = parsed.value, !.pc = "persist"]

\* lines 271-308: the completion model is called and its answer parsed
Completion(s) ==
  /\ req[s].pc = "completion"
  /\ Quiet(s)
  /\ LET r == [req[s] EXCEPT !.calls = Append(@, "completion")] IN
     \/ \E message \in {"fetch failed", "MistralAI API error: 500",
                        "Invalid response from MistralAI"} :
          Step(s, PlanFailure(r, <<message>>))
     \/ \E text \in CompletionTexts : Step(s, AfterCompletion(r, text))
  /\ UNCHANGED <<store, accepted, lastPrefs>>

\* INSERT INTO plans ... ON CONFLICT (user_id, plan_date) DO UPDATE SET plan_json
UpsertPlan(u, plan) ==
  IF \E row \in plans : row.user_id = u
  THEN {IF row.user_id = u THEN [row EXCEPT !.plan_json = plan] ELSE row : row \in plans}
  ELSE plans \cup {[user_id |-> u, plan_json |-> plan]}

\* the INSERT outside any try block: its failure reaches the dispatcher
AfterPersistFatal(r, saved) ==
  IF saved
  THEN Respond([r EXCEPT !.persist = "saved"], 200, "plan", <<>>,
               <<r.plan, r.apod, r.weather>>)
  ELSE DispatcherCatch([r EXCEPT !.persist = "failed"], <<DbError>>)

\* lines 318-323: what follows the attempt to persist, saved or not
AfterPersist(r, saved) ==
  Respond([r EXCEPT !.persist = IF saved THEN "saved" ELSE "failed"],
          200, "plan", <<>>, <<r.plan, r.apod, r.weather>>)

\* lines 310-323: the plan is persisted, then answered
Persist(s) ==
  /\ req[s].pc = "persist"
  /\ Quiet(s)
  /\ LET r == req[s] IN
     \E saved \in BOOLEAN :
       /\ plans' = IF saved THEN UpsertPlan(r.userId, r.plan) ELSE plans
       /\ Step(s, AfterPersist(Touch(r, plans' # plans), saved))
  /\ UNCHANGED <<users, tasks, nextId, preferences, accepted, lastPrefs>>

\* ----------------------------------------------------------- specification
Next ==
  \E s \in Slots :
    \/ Arrive(s)
    \/ Leave(s)
    \/ Connect(s)
    \/ Dispatch(s)
    \/ Finally(s)
    \/ GetUserId(s)
    \/ CreateTask(s)
    \/ InsertTask(s)
    \/ GetTasks(s)
    \/ DeleteTask(s)
    \/ SavePreferences(s)
    \/ WritePreferences(s)
    \/ GetPreferences(s)
    \/ GetPlan(s)
    \/ GetWeather(s)
    \/ FetchWeather(s)
    \/ GetApod(s)
    \/ GeneratePlan(s)
    \/ LookupPrefs(s)
    \/ LookupTasks(s)
    \/ WeatherLookup(s)
    \/ ApodLookup(s)
    \/ Completion(s)
    \/ Persist(s)

Spec == Init /\ [][Next]_vars

\* ------------------------------------------------- parseAIResponse on its own
ParseAlphabet == {LB, RB, LK, RK, CM, CL, SP, FENCE, JSONTAG, PROSE,
                  KSchedule, KSummary, KTime, VTime, NUM}

\* every text of at most MaxLen tokens
ShortTexts == UNION {[1..n -> ParseAlphabet] : n \in 0..MaxLen}

\* a completion cut off after n tokens
Cut(text, n) == SubSeq(text, 1, n)

\* a completion inside a markdown fence, or after a line of prose
Fenced(text) == <<FENCE, NL>> \o text \o <<NL, FENCE>>
FencedJson(text) == <<FENCE, JSONTAG, NL>> \o text \o <<NL, FENCE>>
Introduced(text) == <<PROSE, CL, NL>> \o text

\* the completion the prompt asks for, whole or cut off, bare or wrapped
PlanTexts ==
  LET cuts == {Cut(PlanText, n) : n \in 0..Len(PlanText)}
  IN cuts \cup {Fenced(t) : t \in cuts} \cup {FencedJson(t) : t \in cuts}
          \cup {Introduced(t) : t \in cuts}

\* texts that are JSON as they stand: a list holding an object, and a plan
\* that has its schedule and no summary
DirectTexts ==
  {<<LK, LB, RB, RK>>,
   <<LB, KSchedule, CL, SP, LK>> \o ItemText \o <<RK, RB>>}

\* a schedule of two items up to the last token before the array closes
SchedulePrefix ==
  <<LB, KSchedule, CL, SP, LK>> \o ItemText \o <<CM, SP>> \o ItemText

\* that schedule cut off anywhere after the array has opened
TruncatedSchedules == {Cut(SchedulePrefix, n) : n \in 5..Len(SchedulePrefix)}

ParseInputs == ShortTexts \cup PlanTexts \cup DirectTexts \cup TruncatedSchedules

InitParse ==
  /\ users = SeedStore.users
  /\ tasks = SeedStore.tasks
  /\ nextId = SeedStore.nextId
  /\ preferences = SeedStore.preferences
  /\ lastPrefs = SeedStore.lastPrefs
  /\ plans = {}
  /\ req = [s \in Slots |-> IdleReq]
  /\ accepted = 0
  /\ rawContent \in ParseInputs
  /\ result = NoResult
  /\ wrapped = NoResult
  /\ ppc = "input"

\* lines 547-654 applied to the text
Parse ==
  /\ ppc = "input"
  /\ result' = parseAIResponse(rawContent)
  /\ ppc' = "done"
  /\ UNCHANGED <<store, req, accepted, lastPrefs, rawContent, wrapped>>

\* lines 547-654 applied to the same text inside a markdown fence, with or
\* without the json tag
ParseFenced ==
  /\ ppc = "done"
  /\ \E text \in {Fenced(rawContent), FencedJson(rawContent)} :
       wrapped' = parseAIResponse(text)
  /\ ppc' = "fenced"
  /\ UNCHANGED <<store, req, accepted, lastPrefs, rawContent, result>>

NextParse == Parse \/ ParseFenced

SpecParse == InitParse /\ [][NextParse]_vars

\* ------------------------------------------------------------------ claims
Answered(r) == r.pc \in {"finally", "done"}
IsPlanRequest(r) == r.route = "POST /api/plan"

\* C1: whenever fetch has completed a request whose connection was opened,
\* on whichever path, sql.end() was invoked for it
C1_ConnectionClosed ==
  \A s \in Slots :
    req[s].pc = "done" /\ req[s].connected => req[s].ended = 1

\* a request that ended in the dispatcher's catch block has completed
C1_Witness ==
  \E s \in Slots :
    /\ req[s].pc = "done" /\ req[s].connected
    /\ req[s].threw /\ req[s].status = 500 /\ req[s].ended = 1

C3_DeleteOwnTasksOnly ==
  \A s \in Slots :
    LET r == req[s] IN
    r.route = "DELETE /api/tasks/" /\ Answered(r)
      => /\ \A t \in r.victims : t.id = r.taskId /\ t.user_id = r.userId
         /\ (r.queried /\ r.foreign => r.status = 404 /\ r.victims = {})
         /\ (r.status = 200 <=> r.queried /\ r.victims # {})
         /\ (r.status = 200 => r.data = "ok")

\* u2 asked to delete a task of u1, which is still stored
C3_Witness ==
  \E s \in Slots :
    LET r == req[s] IN
    /\ r.route = "DELETE /api/tasks/" /\ r.pc = "done"
    /\ r.queried /\ r.foreign /\ r.status = 404
    /\ \E t \in tasks : t.id = r.taskId /\ t.user_id # r.userId

\* C4: the preferences table holds at most one row per user, for a user that
\* has written exactly the row of the last upsert applied, and an upsert of
\* the payload the row already holds leaves the table as it was
C4_OnePreferencesRow ==
  /\ \A u \in Users :
       LET rows == {row \in preferences : row.user_id = u} IN
       /\ Cardinality(rows) <= 1
       /\ lastPrefs[u] # NoPayload => rows = {PrefsRow(u, lastPrefs[u])}
  /\ \A s \in Slots :
       req[s].route = "POST /api/preferences" /\ req[s].status = 200 /\ req[s].same
         => ~req[s].prefsChanged

\* a write of u1 replaced the stored row while a second writer for u1, with
\* the other payload, is about to run its upsert
C4_Witness ==
  \E s, t \in Slots :
    /\ s # t
    /\ req[s].route = "POST /api/preferences" /\ req[s].pc = "done"
    /\ req[s].status = 200 /\ req[s].prefsChanged
    /\ req[t].pc = "upsertPreferences" /\ req[t].userId = req[s].userId
    /\ req[t].payload # req[s].payload
    /\ Cardinality({row \in preferences : row.user_id = req[s].userId}) = 1

\* C5: every handler that requires auth runs getUserId first; a request whose
\* credential is missing or invalid is answered 500 with a message that begins
\* "Authentication failed" and has changed no table
C5_AuthFailure ==
  \A s \in Slots :
    LET r == req[s] IN
    /\ r.auth = "failed"
         => /\ Answered(r) /\ r.status = 500 /\ r.data = "error"
            /\ Head(r.error) = "Authentication failed: "
            /\ ~r.wrote
    /\ r.route \in AuthRoutes /\ r.connected /\ r.pc \notin {"dispatch", "getUserId"}
         => r.auth # "none"
    /\ r.wrote => r.auth = "ok"

\* a plan request without a valid credential has completed
C5_Witness ==
  \E s \in Slots :
    /\ req[s].pc = "done" /\ req[s].auth = "failed"
    /\ IsPlanRequest(req[s]) /\ req[s].status = 500

\* C6: once the completion is parsed into a plan, nothing is answered before
\* the attempt to persist it has finished, and the answer is then the 200 body
\* {plan, apod, weather} with that plan, whether the plan was saved or not
C6_PersistFailureNotFatal ==
  \A s \in Slots :
    LET r == req[s] IN
    IsPlanRequest(r) /\ r.parsed
      => \/ r.pc = "persist" /\ r.nresp = 0 /\ r.persist = "none"
         \/ /\ Answered(r) /\ r.persist \in {"saved", "failed"}
            /\ r.status = 200 /\ r.data = "plan" /\ r.error = <<>>
            /\ r.plan # NoValue /\ r.body = <<r.plan, r.apod, r.weather>>

\* a plan that could not be saved was answered
C6_Witness ==
  \E s \in Slots :
    /\ IsPlanRequest(req[s]) /\ req[s].pc = "done" /\ req[s].parsed
    /\ req[s].persist = "failed" /\ req[s].status = 200
    /\ req[s].plan # NoValue

\* C7: in generatePlan with preferences and a task, whatever the weather and
\* astronomy-picture lookups come to, the request goes on: after its lookup
\* weather holds the provider's answer or the fallback, never null, both
\* lookups are over before the prompt is built, and the completion model is
\* called before anything is answered
C7_LookupsNeverAbort ==
  \A s \in Slots :
    LET r == req[s] IN
    IsPlanRequest(r) /\ r.lookedUp /\ r.prefsRows # {} /\ r.taskRows # {}
      => /\ r.pc \in {"weatherLookup", "apodLookup", "completion", "persist",
                      "finally", "done"}
         /\ r.pc = "weatherLookup" => r.calls = <<>> /\ r.weather = "null"
         /\ r.pc # "weatherLookup" => r.weather \in {"real", "fallback"}
         /\ r.pc = "apodLookup" => r.calls = <<"weather">> /\ r.nresp = 0
         /\ r.pc = "completion" => r.calls = <<"weather", "apod">> /\ r.nresp = 0
         /\ r.pc \in {"persist", "finally", "done"}
              => r.calls = <<"weather", "apod", "completion">> /\ ~r.threw

\* both lookups failed, the fallbacks stand in, and the completion model was
\* called all the same
C7_Witness ==
  \E s \in Slots :
    /\ IsPlanRequest(req[s]) /\ req[s].pc = "done"
    /\ req[s].weather = "fallback" /\ req[s].apod = "null"
    /\ req[s].calls = <<"weather", "apod", "completion">>
    /\ req[s].parsed /\ req[s].status = 200

\* C8: a request whose connection was established ends with exactly one
\* response, no exception leaves fetch, and an exception thrown in a handler
\* is answered with a 500 JSON error body
C8_OneResponse ==
  \A s \in Slots :
    LET r == req[s] IN
    /\ r.nresp <= 1 /\ ~r.escaped
    /\ r.pc = "done" /\ r.connected => r.nresp = 1 /\ r.status # 0
    /\ r.threw => r.nresp = 1 /\ r.status = 500 /\ r.data = "error" /\ r.error # <<>>

\* the preferences or tasks lookup of generatePlan failed
C8_Witness ==
  \E s \in Slots :
    /\ IsPlanRequest(req[s]) /\ req[s].pc = "done" /\ req[s].auth = "ok"
    /\ req[s].threw /\ req[s].error = <<DbError>> /\ req[s].status = 500

\* C9: parseAIResponse raises for every text without "schedule"
C9_RaisesWithoutSchedule ==
  ppc = "done" /\ ~Includes(rawContent, KSchedule) => result.raised

\* piece occurs in message as a run of consecutive elements
Contains(message, piece) ==
  \E i \in 0..(Len(message) - Len(piece)) :
    SubSeq(message, i + 1, i + Len(piece)) = piece

\* C10: when parseAIResponse raises on the completion, POST /api/plan answers
\* 500 with an error message that contains the truncated raw text
C10_RawTextEchoed ==
  \A s \in Slots :
    LET r == req[s] IN
    IsPlanRequest(r) /\ Answered(r) /\ r.text # <<>> /\ ~r.parsed
      => /\ r.status = 500
         /\ Contains(r.error, Substring(r.text, SubstringLimit))

\* the value of member key of an object node; NoValue when there is none
Member(node, key) ==
  IF node.kind = "obj" /\ \E i \in 1..Len(node.val) : node.val[i][1] = key
  THEN node.val[CHOOSE i \in 1..Len(node.val) : node.val[i][1] = key][2]
  ELSE NoValue

\* the plan schema at its loosest: an object whose schedule is a list of
\* objects and whose summary is a string
MatchesPlanSchema(node) ==
  /\ node.kind = "obj"
  /\ Member(node, KSchedule).kind = "arr"
  /\ \A i \in 1..Len(Member(node, KSchedule).val) :
       Member(node, KSchedule).val[i].kind = "obj"
  /\ Member(node, KSummary).kind = "str"

\* C11: whatever the text, a value parseAIResponse returns matches the plan
\* schema: an object with a schedule list of items and a summary
C11_ReturnedMatchesSchema ==
  ppc = "done" /\ ~result.raised => MatchesPlanSchema(result.value)

\* C12: a text that parses directly gives the same value when it is handed to
\* parseAIResponse inside a markdown fence, tagged json or not
C12_FenceRoundTrip ==
  ppc = "fenced" /\ JSONParse(rawContent).ok => wrapped = result

\* C13: for a schedule object cut off inside its array and before any summary,
\* at an item boundary or inside an item, the text the truncation repair hands
\* to the second JSON.parse parses as an object whose summary is the fixed
\* text and whose schedule has as many items as were complete before the cut
C13_RepairKeepsCompleteItems ==
  ppc = "done" /\ rawContent \in TruncatedSchedules
    => LET repaired == JSONParse(CleanContent(rawContent)) IN
       /\ repaired.ok
       /\ Member(repaired.node, KSummary) = StrNode(FallbackSummary)
       /\ Member(repaired.node, KSchedule).kind = "arr"
       /\ Len(Member(repaired.node, KSchedule).val) = Count(rawContent, RB)

====
